---- MODULE Spec2Model ----
(***************************************************************************)
(* Model of the adaptive CPU core power-management daemon, in its two      *)
(* programs:                                                               *)
(*   cpualgo.py     registry held in two Python sets, initialised to       *)
(*                  "every core but core 0 is active";                     *)
(*   cpupowalgo.py  active_cores held in a Python list read from the       *)
(*                  kernel, re-read by the display step of every cycle,    *)
(*                  with a process-affinity rebalancer.                    *)
(* One behaviour runs one program (variable prog).  cpualgo.py is driven   *)
(* either by its main loop (entry = "main", where ipc = get_ipc()) or by   *)
(* calls of manage_core_activity with arbitrary arguments after main's     *)
(* initialisation (entry = "call").                                        *)
(*                                                                         *)
(* IPC values are held in hundredths (0.7 is 70, 0.75 is 75, 0.9 is 90).   *)
(***************************************************************************)
EXTENDS Integers, Sequences, FiniteSets, TLC

\* ---------------------------------------------------------------- constants
LOAD_THRESHOLD == 10

IRQ_THRESHOLD == 100000

\* cpualgo.py: IPC_THRESHOLD = 0.7, in hundredths
IPC_THRESHOLD == 70

\* cpupowalgo.py: IPC_THRESHOLD = 0.9, in hundredths
IPC_THRESHOLD_POW == 90

MIN_ACTIVE_CORES == 1

\* cpualgo.py get_ipc(): ipc = 0.75, in hundredths
FIXED_IPC == 75

\* ------------------------------------------------------------------- bounds
\* largest psutil.cpu_count() considered (cores are 0 .. cpu_count-1)
MaxCpuCount == 3

\* number of live processes psutil.process_iter() yields
NumProcs == 1

\* metric values a cycle can sample: below and at or above each threshold
Loads == {5, 10}

Irqs == {1000, 100000}

Ipcs == {30, 70, 90}

Procs == 1 .. NumProcs

Governors == {"ondemand", "powersave", "performance"}

NoCore == 0 - 1

VARIABLES
    prog,           \* "cpualgo" or "cpupowalgo": the program this behaviour runs
    entry,          \* "main": the main loop; "call": direct calls (cpualgo only)
    pc,             \* position of the single thread in main()
    cpu_count,      \* psutil.cpu_count(logical=True), MAX_CORES in cpualgo.py
    cpu0_file,      \* whether /sys/devices/system/cpu/cpu0/online exists
    boot_all_online,\* whether every core was online when the program started
    online,         \* kernel: core -> its online flag
    governor,       \* kernel: core -> its scaling governor
    active_cores,   \* cpualgo: a set; cpupowalgo: a list (sequence)
    offline_cores,  \* a set in both programs
    cpu_load,       \* this cycle's metrics (locals of main's loop body)
    irq_count,
    ipc,
    transition,     \* branch manage_core_activity took in this cycle
    kwrites,        \* online-file writes requested in this cycle, in order
    gov_calls,      \* set_governor calls made in this cycle, in order
    cpu_num,        \* process -> core it was seen on by process_iter
    affinity,       \* kernel: process -> set of cores it may run on
    reassigned,     \* processes whose affinity this cycle's rebalancer changed
    verified        \* cores the rebalancer read as online in this cycle

vars == <<prog, entry, pc, cpu_count, cpu0_file, boot_all_online, online, governor,
          active_cores, offline_cores, cpu_load, irq_count, ipc, transition,
          kwrites, gov_calls, cpu_num, affinity, reassigned, verified>>

\* ------------------------------------------------------------------ helpers
Cores == 0 .. (cpu_count - 1)

Range(s) == {s[i] : i \in DOMAIN s}

\* the value of transition when no branch has been taken in the cycle; low
\* records whether the call found all three signals below their thresholds
NoTransition == [kind |-> "None", core |-> NoCore, low |-> FALSE]

\* the cores in active_cores, whichever container the program uses
ActiveSet == IF prog = "cpupowalgo" THEN Range(active_cores) ELSE active_cores

\* len(active_cores)
ActiveLen == IF prog = "cpupowalgo" THEN Len(active_cores) ELSE Cardinality(active_cores)

\* outcomes of one set_governor call: the writes succeed for every core or
\* (no permission, no cpufreq driver) for none
GovernorOutcomes == {Cores, {}}

IpcThreshold == IF prog = "cpupowalgo" THEN IPC_THRESHOLD_POW ELSE IPC_THRESHOLD

\* ------------------------------------------------------- the decision policy
\* cpu_load < LOAD_THRESHOLD and irq_count < IRQ_THRESHOLD and ipc < IPC_THRESHOLD
LowSignals(load, irq, ip, thr) ==
    load < LOAD_THRESHOLD /\ irq < IRQ_THRESHOLD /\ ip < thr

\* cpu_load >= LOAD_THRESHOLD or irq_count >= IRQ_THRESHOLD or ipc >= IPC_THRESHOLD
HighSignal(load, irq, ip, thr) ==
    load >= LOAD_THRESHOLD \/ irq >= IRQ_THRESHOLD \/ ip >= thr

\* mutant of DeactivateCond: ">=" for ">" in the minimum-active guard
MutDeactivateCondGe(load, irq, ip, thr, nactive) ==
    LowSignals(load, irq, ip, thr) /\ nactive >= MIN_ACTIVE_CORES

\* mutant of DeactivateCond: the IPC conjunct is left out
MutDeactivateCondNoIpc(load, irq, ip, thr, nactive) ==
    load < LOAD_THRESHOLD /\ irq < IRQ_THRESHOLD /\ nactive > MIN_ACTIVE_CORES

\* the condition of the "if": ... and len(active_cores) > MIN_ACTIVE_CORES
DeactivateCond(load, irq, ip, thr, nactive) ==
    LowSignals(load, irq, ip, thr) /\ nactive > MIN_ACTIVE_CORES

\* the condition of the "elif" together with the nested "if offline_cores:"
ActivateCond(load, irq, ip, thr, off) ==
    HighSignal(load, irq, ip, thr) /\ off # {}

\* --------------------------------------------------------- kernel collaborators
\* mutant of WriteOnlineFile: the two strings swapped, "0" written for online
MutWriteOnlineFileInverted(on, core, state, ok) ==
    IF ok THEN [on EXCEPT ![core] = (state # "online")] ELSE on

\* the write of "1"/"0" to cpu<core>/online; ok = the write raised no exception
WriteOnlineFile(on, core, state, ok) ==
    IF ok THEN [on EXCEPT ![core] = (state = "online")] ELSE on

\* one governor write per core in okcores; the other writes failed
WriteGovernor(gov, name, okcores) ==
    [c \in DOMAIN gov |-> IF c \in okcores THEN name ELSE gov[c]]

\* mutant of DeactivateGovernor: the two governor names swapped
MutDeactivateGovernor == "performance"

\* the governor the deactivation branch asks for: set_governor("powersave")
DeactivateGovernor == "powersave"

\* the governor the activation branch asks for: set_governor("performance")
ActivateGovernor == "performance"

\* the exception open()/write() on a sysfs file raises when the write is
\* refused (the process is not root); other OSErrors are handled alike
WriteErrors == {"PermissionError"}

\* what one write does: it returns, or it raises one of WriteErrors
WriteOutcomes == {"ok"} \cup WriteErrors

\* the subclasses of OSError among the classes used (IOError is OSError)
OSErrorClasses == {"OSError", "PermissionError", "FileNotFoundError"}

\* the subclasses of Exception among the classes used
ExceptionClasses == OSErrorClasses \cup {"Exception"}

\* cpualgo.py set_cpu_online_state: "except Exception"
AlgoCatches(exc) == exc \in ExceptionClasses

\* mutant of PowCatches: "except FileNotFoundError", as get_active_cores has it
MutPowCatchesNotFound(exc) == exc = "FileNotFoundError"

\* cpupowalgo.py set_cpu_online_state and set_governor: "except IOError"
PowCatches(exc) == exc \in OSErrorClasses

\* where the thread is after a write: at its normal next position, or, when
\* the write raised an exception its handler does not catch, out of the
\* program with a traceback
AfterWrite(res, caught, normal) ==
    IF res = "ok" \/ caught THEN normal ELSE "crashed"

\* the record of one online-file write in kwrites
KWrite(core, state, ok) == [core |-> core, state |-> state, ok |-> ok]

\* mutant of SetCpuOnlineState: the early return is taken for every core
MutSetCpuOnlineStateReturns(on, core, state, ok) == on

\* cpualgo.py set_cpu_online_state: core 0 is skipped, no write is made
SetCpuOnlineState(on, core, state, ok) ==
    IF core = 0 THEN on ELSE WriteOnlineFile(on, core, state, ok)

\* the writes cpualgo.py set_cpu_online_state makes for (core, state)
SetCpuOnlineStateWrites(core, state, ok) ==
    IF core = 0 THEN <<>> ELSE <<KWrite(core, state, ok)>>

\* cpualgo.py activate_all_cores: set_cpu_online_state(core, 'online') for
\* core = from .. n-1 in turn; okset = the cores whose write succeeded
RECURSIVE ActivateAllCores(_, _, _, _)
ActivateAllCores(on, from, n, okset) ==
    IF from >= n THEN on
    ELSE ActivateAllCores(SetCpuOnlineState(on, from, "online", from \in okset),
                          from + 1, n, okset)

\* the writes activate_all_cores makes, in order
RECURSIVE ActivateAllCoresWrites(_, _, _)
ActivateAllCoresWrites(from, n, okset) ==
    IF from >= n THEN <<>>
    ELSE SetCpuOnlineStateWrites(from, "online", from \in okset)
           \o ActivateAllCoresWrites(from + 1, n, okset)

\* cpualgo.py main, lines 136-137: the initial registry
InitialActive(n) == 1 .. (n - 1)

\* mutant of Deactivated: the popped core is not added to offline_cores
MutDeactivatedNoAdd(act, off, core) ==
    [active |-> act \ {core}, offline |-> off]

\* cpualgo.py lines 92-93: active_cores.pop() gave core; offline_cores.add(core)
Deactivated(act, off, core) ==
    [active |-> act \ {core}, offline |-> off \cup {core}]

\* cpualgo.py lines 102-103: offline_cores.pop() gave core; active_cores.add(core)
Activated(act, off, core) ==
    [active |-> act \cup {core}, offline |-> off \ {core}]

\* ------------------------------------------------------------ initial states
\* The program is about to enter main().  The registry is empty (cpupowalgo.py
\* lines 12-13; cpualgo.py binds it first in main, so pc = "start" states say
\* nothing about it).  The machine has 1..MaxCpuCount cores, core 0 online, the
\* others online or offline; cpu0/online exists or not.
Init ==
    /\ prog \in {"cpualgo", "cpupowalgo"}
    /\ entry \in {"main", "call"}
    /\ prog = "cpupowalgo" => entry = "main"
    /\ pc = "start"
    /\ cpu_count \in 1 .. MaxCpuCount
    /\ cpu0_file \in BOOLEAN
    /\ online \in [0 .. (cpu_count - 1) -> BOOLEAN]
    /\ online[0]
    /\ boot_all_online = (\A c \in DOMAIN online : online[c])
    /\ governor = [c \in 0 .. (cpu_count - 1) |-> "ondemand"]
    /\ active_cores = IF prog = "cpupowalgo" THEN <<>> ELSE {}
    /\ offline_cores = {}
    /\ cpu_load = 0
    /\ irq_count = 0
    /\ ipc = 0
    /\ transition = NoTransition
    /\ kwrites = <<>>
    /\ gov_calls = <<>>
    /\ cpu_num = [p \in Procs |-> 0]
    /\ affinity = [p \in Procs |-> 0 .. (cpu_count - 1)]
    /\ reassigned = {}
    /\ verified = {}

\* ------------------------------------------------------------------ cpualgo.py
\* main, lines 136-140: the registry is initialised, then activate_all_cores
\* writes "1" for every core but 0; okset = the cores whose write succeeded,
\* exc = the exception the other writes raised
MainInit ==
    /\ prog = "cpualgo" /\ pc = "start"
    /\ active_cores' = InitialActive(cpu_count)
    /\ offline_cores' = {}
    /\ \E okset \in SUBSET (1 .. (cpu_count - 1)), exc \in WriteErrors :
          /\ online' = ActivateAllCores(online, 1, cpu_count, okset)
          /\ kwrites' = ActivateAllCoresWrites(1, cpu_count, okset)
          /\ pc' = AfterWrite(IF okset = 1 .. (cpu_count - 1) THEN "ok" ELSE exc,
                              AlgoCatches(exc),
                              IF entry = "main" THEN "fetch" ELSE "call")
    /\ UNCHANGED <<prog, entry, cpu_count, cpu0_file, boot_all_online, governor,
                   cpu_load, irq_count, ipc, transition, gov_calls,
                   cpu_num, affinity, reassigned, verified>>

\* cpualgo.py get_ipc, lines 24-31: the fixed estimate
GetIpc == FIXED_IPC

\* main, lines 145-168: the cycle's metrics are fetched and displayed; the
\* record of the writes made before the cycle ends here
FetchMetrics ==
    /\ prog = "cpualgo" /\ entry = "main" /\ pc = "fetch"
    /\ cpu_load' \in Loads
    /\ irq_count' \in Irqs
    /\ ipc' = GetIpc
    /\ kwrites' = <<>>
    /\ pc' = "manage"
    /\ UNCHANGED <<prog, entry, cpu_count, cpu0_file, boot_all_online, online,
                   governor, active_cores, offline_cores, transition,
                   gov_calls, cpu_num, affinity, reassigned, verified>>

\* manage_core_activity(cpu_load, irq_count, ipc) called with any arguments
CallManageCoreActivity ==
    /\ prog = "cpualgo" /\ entry = "call" /\ pc = "call"
    /\ cpu_load' \in Loads
    /\ irq_count' \in Irqs
    /\ ipc' \in Ipcs
    /\ transition' = NoTransition
    /\ kwrites' = <<>>
    /\ gov_calls' = <<>>
    /\ pc' = "manage"
    /\ UNCHANGED <<prog, entry, cpu_count, cpu0_file, boot_all_online, online,
                   governor, active_cores, offline_cores, cpu_num, affinity,
                   reassigned, verified>>

\* manage_core_activity, lines 83-106.  res: what the online-file write did;
\* gok: "cpupower frequency-set" succeeded (subprocess.call returns its exit
\* status, it raises nothing).  set.pop() returns any member.
\* The metrics are the call's arguments: they end with the call.
ManageCoreActivity ==
    /\ prog = "cpualgo" /\ pc = "manage"
    /\ LET low == LowSignals(cpu_load, irq_count, ipc, IPC_THRESHOLD)
           next == IF entry = "main" THEN "status" ELSE "call"
       IN
        IF DeactivateCond(cpu_load, irq_count, ipc, IPC_THRESHOLD,
                          Cardinality(active_cores))
        THEN \E core \in active_cores, res \in WriteOutcomes, gok \in BOOLEAN :
               /\ active_cores' = Deactivated(active_cores, offline_cores, core).active
               /\ offline_cores' = Deactivated(active_cores, offline_cores, core).offline
               /\ online' = SetCpuOnlineState(online, core, "offline", res = "ok")
               /\ kwrites' = SetCpuOnlineStateWrites(core, "offline", res = "ok")
               /\ pc' = AfterWrite(res, AlgoCatches(res), next)
               /\ governor' = WriteGovernor(governor, DeactivateGovernor,
                                            IF gok THEN Cores ELSE {})
               /\ gov_calls' = <<DeactivateGovernor>>
               /\ transition' = [kind |-> "Deactivate", core |-> core, low |-> low]
        ELSE IF ActivateCond(cpu_load, irq_count, ipc, IPC_THRESHOLD, offline_cores)
        THEN \E core \in offline_cores, res \in WriteOutcomes, gok \in BOOLEAN :
               /\ active_cores' = Activated(active_cores, offline_cores, core).active
               /\ offline_cores' = Activated(active_cores, offline_cores, core).offline
               /\ online' = SetCpuOnlineState(online, core, "online", res = "ok")
               /\ kwrites' = SetCpuOnlineStateWrites(core, "online", res = "ok")
               /\ pc' = AfterWrite(res, AlgoCatches(res), next)
               /\ governor' = WriteGovernor(governor, ActivateGovernor,
                                            IF gok THEN Cores ELSE {})
               /\ gov_calls' = <<ActivateGovernor>>
               /\ transition' = [kind |-> "Activate", core |-> core, low |-> low]
        ELSE /\ transition' = [kind |-> "None", core |-> NoCore, low |-> low]
             /\ pc' = next
             /\ UNCHANGED <<active_cores, offline_cores, online, kwrites,
                            governor, gov_calls>>
    /\ cpu_load' = 0 /\ irq_count' = 0 /\ ipc' = 0
    /\ UNCHANGED <<prog, entry, cpu_count, cpu0_file, boot_all_online,
                   cpu_num, affinity, reassigned, verified>>

\* main, lines 174-177: print_core_status(), then time.sleep(5).  The cycle's
\* record of calls ends with the cycle.
PrintCoreStatus ==
    /\ prog = "cpualgo" /\ pc = "status"
    /\ transition' = NoTransition
    /\ kwrites' = <<>>
    /\ gov_calls' = <<>>
    /\ pc' = "fetch"
    /\ UNCHANGED <<prog, entry, cpu_count, cpu0_file, boot_all_online, online,
                   governor, active_cores, offline_cores, cpu_load, irq_count,
                   ipc, cpu_num, affinity, reassigned, verified>>

\* --------------------------------------------------------------- cpupowalgo.py
\* get_active_cores, lines 82-92: the cores whose online file exists and reads
\* "1", in ascending order (cpu0/online is the one file that may be missing)
GetActiveCores(on, file0, n) ==
    SelectSeq([i \in 1 .. n |-> i - 1], LAMBDA c : (c # 0 \/ file0) /\ on[c])

\* mutant of PowDeactivated: active_cores.pop() is called twice, once for
\* offline_cores.add and once for the core handed to set_cpu_online_state
MutPowDeactivatedTwice(act, off) ==
    [core |-> act[Len(act) - 1],
     active |-> SubSeq(act, 1, Len(act) - 2),
     offline |-> off \cup {act[Len(act)]}]

\* mutant of PowDeactivated: active_cores.pop(0), the first of the list
MutPowDeactivatedFirst(act, off) ==
    [core |-> act[1],
     active |-> SubSeq(act, 2, Len(act)),
     offline |-> off \cup {act[1]}]

\* lines 119-120: core = active_cores.pop() (the last of the list);
\* offline_cores.add(core)
PowDeactivated(act, off) ==
    [core |-> act[Len(act)],
     active |-> SubSeq(act, 1, Len(act) - 1),
     offline |-> off \cup {act[Len(act)]}]

\* lines 129-130: offline_cores.pop() gave core; active_cores.append(core)
PowActivated(act, off, core) ==
    [active |-> Append(act, core), offline |-> off \ {core}]

\* line 141: process['cpu_num'] not in active_cores
NeedsReassign(cnum, act) == cnum \notin Range(act)

\* line 144: the members of active_cores whose online file reads "1"
ValidActiveCores(act, on) == SelectSeq(act, LAMBDA c : on[c])

\* mutant of NewAffinity: the whole list is handed to cpu_affinity
MutNewAffinityAllValid(valid) == Range(valid)

\* lines 148-150: new_core = valid_active_cores[0]; cpu_affinity([new_core])
NewAffinity(valid) == {valid[1]}

\* lines 136-157: the rebalancer, run on the registry and the kernel state the
\* decision left.  cnum: the core each process was seen on; okprocs: the
\* processes whose cpu_affinity() call raised nothing.
Rebalanced(act, on, aff, cnum, okprocs) ==
    LET need == {p \in Procs : NeedsReassign(cnum[p], act)}
        valid == ValidActiveCores(act, on)
        changed == IF valid # <<>> THEN need \cap okprocs ELSE {}
    IN [affinity |-> [p \in Procs |-> IF p \in changed THEN NewAffinity(valid)
                                                   ELSE aff[p]],
        reassigned |-> changed,
        verified |-> IF need # {} THEN Range(valid) ELSE {}]

\* main, lines 169-170
PowMainInit ==
    /\ prog = "cpupowalgo" /\ pc = "start"
    /\ active_cores' = GetActiveCores(online, cpu0_file, cpu_count)
    /\ offline_cores' = {}
    /\ pc' = "fetch"
    /\ UNCHANGED <<prog, entry, cpu_count, cpu0_file, boot_all_online, online,
                   governor, cpu_load, irq_count, ipc, transition, kwrites,
                   gov_calls, cpu_num, affinity, reassigned, verified>>

\* main, lines 174-179: the cycle's metrics are sampled and displayed
PowFetchMetrics ==
    /\ prog = "cpupowalgo" /\ pc = "fetch"
    /\ cpu_load' \in Loads
    /\ irq_count' \in Irqs
    /\ ipc' \in Ipcs
    /\ pc' = "manage"
    /\ UNCHANGED <<prog, entry, cpu_count, cpu0_file, boot_all_online, online,
                   governor, active_cores, offline_cores, transition, kwrites,
                   gov_calls, cpu_num, affinity, reassigned, verified>>

\* lines 136-157 as a step: okprocs are the processes, among those found off
\* the active cores, whose cpu_affinity() call raised nothing
PowRebalance(act, on, cnum) ==
    \E okprocs \in SUBSET {p \in Procs : NeedsReassign(cnum[p], act)} :
        LET r == Rebalanced(act, on, affinity, cnum, okprocs)
        IN /\ affinity' = r.affinity
           /\ reassigned' = r.reassigned
           /\ verified' = r.verified

\* what the scaling_governor writes of one set_governor call do, given the
\* cores for which they succeed
GovernorResults(okcores) == IF okcores = Cores THEN {"ok"} ELSE WriteErrors

\* manage_core_activity, lines 109-165.  res: what the online-file write did;
\* okcores: the cores whose scaling_governor write succeeded, gres: what those
\* writes did; cnum: the core process_iter reports for each process.
\* The metrics are the call's arguments: they end with the call.
PowManageCoreActivity ==
    /\ prog = "cpupowalgo" /\ pc = "manage"
    /\ \E cnum \in [Procs -> Cores] :
        LET low == LowSignals(cpu_load, irq_count, ipc, IPC_THRESHOLD_POW)
        IN
        /\ cpu_num' = cnum
        /\ IF DeactivateCond(cpu_load, irq_count, ipc, IPC_THRESHOLD_POW,
                             Len(active_cores))
           THEN \E res \in WriteOutcomes, okcores \in GovernorOutcomes :
                \E gres \in GovernorResults(okcores) :
                LET d == PowDeactivated(active_cores, offline_cores)
                    on == WriteOnlineFile(online, d.core, "offline", res = "ok")
                IN /\ active_cores' = d.active
                   /\ offline_cores' = d.offline
                   /\ online' = on
                   /\ kwrites' = <<KWrite(d.core, "offline", res = "ok")>>
                   /\ pc' = AfterWrite(res, PowCatches(res),
                                       AfterWrite(gres, PowCatches(gres), "display"))
                   /\ governor' = WriteGovernor(governor, DeactivateGovernor, okcores)
                   /\ gov_calls' = <<DeactivateGovernor>>
                   /\ transition' = [kind |-> "Deactivate", core |-> d.core,
                                      low |-> low]
                   /\ PowRebalance(d.active, on, cnum)
           ELSE IF ActivateCond(cpu_load, irq_count, ipc, IPC_THRESHOLD_POW,
                                offline_cores)
           THEN \E core \in offline_cores, res \in WriteOutcomes,
                   okcores \in GovernorOutcomes :
                \E gres \in GovernorResults(okcores) :
                LET a == PowActivated(active_cores, offline_cores, core)
                    on == WriteOnlineFile(online, core, "online", res = "ok")
                IN /\ active_cores' = a.active
                   /\ offline_cores' = a.offline
                   /\ online' = on
                   /\ kwrites' = <<KWrite(core, "online", res = "ok")>>
                   /\ pc' = AfterWrite(res, PowCatches(res),
                                       AfterWrite(gres, PowCatches(gres), "display"))
                   /\ governor' = WriteGovernor(governor, ActivateGovernor, okcores)
                   /\ gov_calls' = <<ActivateGovernor>>
                   /\ transition' = [kind |-> "Activate", core |-> core,
                                      low |-> low]
                   /\ PowRebalance(a.active, on, cnum)
           ELSE /\ transition' = [kind |-> "None", core |-> NoCore, low |-> low]
                /\ pc' = "display"
                /\ PowRebalance(active_cores, online, cnum)
                /\ UNCHANGED <<active_cores, offline_cores, online, kwrites,
                               governor, gov_calls>>
    /\ cpu_load' = 0 /\ irq_count' = 0 /\ ipc' = 0
    /\ UNCHANGED <<prog, entry, cpu_count, cpu0_file, boot_all_online>>

\* main, lines 185-188: display_core_usage_and_state() replaces active_cores by
\* a fresh get_active_cores(); then time.sleep(5).  The cycle's record of
\* calls ends with the cycle.
DisplayCoreUsageAndState ==
    /\ prog = "cpupowalgo" /\ pc = "display"
    /\ active_cores' = GetActiveCores(online, cpu0_file, cpu_count)
    /\ transition' = NoTransition
    /\ kwrites' = <<>>
    /\ gov_calls' = <<>>
    /\ cpu_num' = [p \in Procs |-> 0]
    /\ reassigned' = {}
    /\ verified' = {}
    /\ pc' = "fetch"
    /\ UNCHANGED <<prog, entry, cpu_count, cpu0_file, boot_all_online, online,
                   governor, offline_cores, cpu_load, irq_count, ipc, affinity>>

\* ------------------------------------------------------------- specification
Next ==
    \/ MainInit
    \/ FetchMetrics
    \/ CallManageCoreActivity
    \/ ManageCoreActivity
    \/ PrintCoreStatus
    \/ PowMainInit
    \/ PowFetchMetrics
    \/ PowManageCoreActivity
    \/ DisplayCoreUsageAndState

Spec == Init /\ [][Next]_vars

\* ------------------------------------------------------ the metrics display
\* cpualgo.py main, line 157: the governor printed is computed from the load
ShownGovernor(load) ==
    IF load < LOAD_THRESHOLD THEN "powersave" ELSE "performance"

\* cpupowalgo.py display_metrics, line 79: the governor printed is a literal
PowShownGovernor == "powersave"

\* the "CPU Governor" line of the cycle's metrics display; the display is made
\* from the metrics just fetched, so this is read where pc = "manage"
DisplayedGovernor ==
    IF prog = "cpupowalgo" THEN PowShownGovernor ELSE ShownGovernor(cpu_load)

\* ------------------------------------------ set_cpu_online_state on its own
\* the last two entries of a record of writes
LastTwo(writes) ==
    IF Len(writes) <= 2 THEN writes ELSE SubSeq(writes, Len(writes) - 1, Len(writes))

\* set_cpu_online_state(core, state) of the running program, called on its own
\* once main's initialisation is done.  The function names no global: the
\* registry is not touched.  kwrites keeps the last two writes requested.
CallSetCpuOnlineState ==
    /\ pc \in {"call", "fetch"}
    /\ \E core \in Cores, state \in {"online", "offline"}, res \in WriteOutcomes :
        IF prog = "cpualgo"
        THEN /\ online' = SetCpuOnlineState(online, core, state, res = "ok")
             /\ kwrites' = LastTwo(kwrites \o
                                   SetCpuOnlineStateWrites(core, state, res = "ok"))
             /\ pc' = AfterWrite(res, AlgoCatches(res), pc)
        ELSE /\ online' = WriteOnlineFile(online, core, state, res = "ok")
             /\ kwrites' = LastTwo(Append(kwrites, KWrite(core, state, res = "ok")))
             /\ pc' = AfterWrite(res, PowCatches(res), pc)
    /\ UNCHANGED <<prog, entry, cpu_count, cpu0_file, boot_all_online, governor,
                   active_cores, offline_cores, cpu_load, irq_count, ipc,
                   transition, gov_calls, cpu_num, affinity, reassigned, verified>>

SetOnlineNext ==
    \/ MainInit
    \/ PowMainInit
    \/ CallSetCpuOnlineState

\* the program's initialisation followed by calls of set_cpu_online_state
SetOnlineSpec == Init /\ [][SetOnlineNext]_vars

\* the loop of main() never stops taking its next step ("while True" in a
\* single thread, every call in it returning)
FairSpec == Spec /\ WF_vars(Next)

\* ------------------------------------------------------------------- claims
\* one call of manage_core_activity, of either program
ManageStep == pc = "manage" /\ pc' # "manage"

\* an online-file write of the cycle that failed
SomeWriteFailed(writes) == \E i \in DOMAIN writes : ~writes[i].ok

\* the three signals of the cycle are below their thresholds
AllLow == LowSignals(cpu_load, irq_count, ipc, IpcThreshold)

\* C1: in cpualgo.py, once main has initialised the registry, active_cores and
\* offline_cores are disjoint, their union is {1, ..., MAX_CORES-1}, and core 0
\* is in neither, whatever the metrics and whether kernel writes succeed or fail.
C1_Partition ==
    (prog = "cpualgo" /\ pc # "start") =>
        /\ active_cores \cap offline_cores = {}
        /\ active_cores \cup offline_cores = 1 .. (cpu_count - 1)
        /\ 0 \notin active_cores /\ 0 \notin offline_cores

\* C1 witness: cpualgo.py has cores on both sides after a failed kernel write
C1_Witness ==
    /\ prog = "cpualgo" /\ pc # "start"
    /\ active_cores # {} /\ offline_cores # {}
    /\ SomeWriteFailed(kwrites)

\* C2 (as claimed): a cycle of cpualgo.py whose kernel write failed leaves the
\* registry as it was.
C2_FailedWriteKeepsRegistry ==
    [][(ManageStep /\ prog = "cpualgo" /\ SomeWriteFailed(kwrites'))
          => (active_cores' = active_cores /\ offline_cores' = offline_cores)]_vars

\* C3 (as claimed): in cpualgo.py |active| >= MIN_ACTIVE_CORES from
\* initialisation onward for every MAX_CORES >= 1, and a cycle entered at the
\* minimum with all signals low changes neither set.
C3_MinActive ==
    /\ []((prog = "cpualgo" /\ pc # "start")
              => Cardinality(active_cores) >= MIN_ACTIVE_CORES)
    /\ [][(ManageStep /\ prog = "cpualgo" /\ AllLow
             /\ Cardinality(active_cores) = MIN_ACTIVE_CORES)
          => (active_cores' = active_cores /\ offline_cores' = offline_cores
              /\ transition'.kind = "None")]_vars

\* C4 (as claimed): in cpupowalgo.py started with every core online, at every
\* cycle boundary each core other than 0 is in exactly one of active_cores and
\* offline_cores.
C4_PowPartition ==
    (prog = "cpupowalgo" /\ boot_all_online /\ pc = "fetch") =>
        \A c \in Cores \ {0} :
            (c \in Range(active_cores)) # (c \in offline_cores)

\* the branch the precedence table of the policy gives for a snapshot and the
\* sizes of the two sets
TableBranch(load, irq, ip, thr, nactive, noffline) ==
    IF load < LOAD_THRESHOLD /\ irq < IRQ_THRESHOLD /\ ip < thr
       /\ nactive > MIN_ACTIVE_CORES
    THEN "Deactivate"
    ELSE IF (load >= LOAD_THRESHOLD \/ irq >= IRQ_THRESHOLD \/ ip >= thr)
            /\ noffline > 0
    THEN "Activate"
    ELSE "None"

\* the branch a call is seen to have taken, from the calls it made
BranchSeen(writes, govs) ==
    IF Len(writes) = 1 /\ writes[1].state = "offline" /\ govs = <<"powersave">>
    THEN "Deactivate"
    ELSE IF Len(writes) = 1 /\ writes[1].state = "online" /\ govs = <<"performance">>
    THEN "Activate"
    ELSE IF writes = <<>> /\ govs = <<>>
    THEN "None"
    ELSE "Other"

\* C5: the branch one call of manage_core_activity takes, in either program, is
\* the one the precedence table gives for (cpu_load, irq_count, ipc, |active|,
\* |offline|); in particular all signals low at |active| = MIN_ACTIVE_CORES
\* gives None whatever offline holds.
C5_BranchIsTable ==
    [][ManageStep =>
          LET b == TableBranch(cpu_load, irq_count, ipc, IpcThreshold,
                               ActiveLen, Cardinality(offline_cores))
          IN /\ transition'.kind = b
             /\ BranchSeen(kwrites', gov_calls') = b]_vars

\* C5 witness: a call has returned without a transition, entered with all
\* signals low, |active| at the minimum and offline non-empty
C5_Witness ==
    /\ pc \in {"call", "status", "display"}
    /\ transition.low
    /\ ActiveLen = MIN_ACTIVE_CORES
    /\ offline_cores # {}
    /\ transition.kind = "None" /\ kwrites = <<>> /\ gov_calls = <<>>

\* the cores whose membership of a set differs between two values of the set
Moved(before, after) == (before \ after) \cup (after \ before)

Abs(x) == IF x < 0 THEN 0 - x ELSE x

\* C6: one call of manage_core_activity, in either program, moves at most one
\* core between the sets, makes at most one of the two transitions, and changes
\* |active| by at most 1.
C6_AtMostOneTransition ==
    [][ManageStep =>
          /\ Cardinality(Moved(ActiveSet, ActiveSet')
                         \cup Moved(offline_cores, offline_cores')) <= 1
          /\ Abs(ActiveLen' - ActiveLen) <= 1
          /\ Abs(Cardinality(ActiveSet') - Cardinality(ActiveSet)) <= 1
          /\ Len(kwrites') <= 1
          /\ Len(gov_calls') <= 1]_vars

\* C6 witness: a call of cpupowalgo.py has deactivated a core while another
\* core was already in offline_cores
C6_Witness ==
    /\ prog = "cpupowalgo" /\ pc = "display"
    /\ transition.kind = "Deactivate"
    /\ Cardinality(offline_cores) >= 2
    /\ Len(kwrites) = 1

C8_Activation ==
    [][(ManageStep /\ ~AllLow) =>
          IF offline_cores # {}
          THEN \E c \in offline_cores :
                 /\ ActiveSet' = ActiveSet \cup {c}
                 /\ offline_cores' = offline_cores \ {c}
                 /\ Cardinality(ActiveSet') = Cardinality(ActiveSet) + 1
                 /\ Len(kwrites') = 1
                 /\ kwrites'[1].core = c /\ kwrites'[1].state = "online"
                 /\ gov_calls' = <<"performance">>
          ELSE /\ ActiveSet' = ActiveSet
               /\ offline_cores' = offline_cores
               /\ governor' = governor
               /\ gov_calls' = <<>>]_vars

\* C9: in cpupowalgo.py every process whose affinity the rebalancer changes is
\* left restricted to one core, which is in active_cores, was read as online in
\* the same cycle and is not in offline_cores; no other process's affinity
\* changes; and when no core of active_cores reads online, none changes.
C9_RebalanceTarget ==
    [][(ManageStep /\ prog = "cpupowalgo") =>
          /\ \A p \in reassigned' :
                \E k \in Cores :
                   /\ affinity'[p] = {k}
                   /\ k \in Range(active_cores')
                   /\ k \in verified' /\ online'[k]
                   /\ k \notin offline_cores'
          /\ \A p \in Procs \ reassigned' : affinity'[p] = affinity[p]
          /\ ({k \in Range(active_cores') : online'[k]} = {})
                => (reassigned' = {} /\ affinity' = affinity)]_vars

\* C9 witness: a process has been moved in a cycle whose kernel write failed,
\* while some core is in offline_cores
C9_Witness ==
    /\ prog = "cpupowalgo" /\ pc = "display"
    /\ reassigned # {}
    /\ SomeWriteFailed(kwrites)
    /\ offline_cores # {}
    /\ \A p \in reassigned : Cardinality(affinity[p]) = 1

\* C10 (as claimed): the rebalancer changes the affinity only of processes seen
\* on a core that is in offline_cores.
C10_OnlyOfflineReassigned ==
    [][(ManageStep /\ prog = "cpupowalgo") =>
          \A p \in Procs :
             cpu_num'[p] \notin offline_cores'
                => (p \notin reassigned' /\ affinity'[p] = affinity[p])]_vars

\* C11: in neither program does a cycle write core 0's online file: core 0 is
\* never the core of a transition, never enters offline_cores, and its kernel
\* flag stays as it was, also when cpupowalgo.py holds core 0 in active_cores.
C11_Core0NeverWritten ==
    /\ \A i \in DOMAIN kwrites : kwrites[i].core # 0
    /\ transition.core # 0
    /\ 0 \notin offline_cores
    /\ online[0]

\* C11 witness: cpupowalgo.py, with core 0 in active_cores, has deactivated a
\* core and is left with core 0 alone
C11_Witness ==
    /\ prog = "cpupowalgo" /\ pc = "display"
    /\ active_cores = <<0>>
    /\ transition.kind = "Deactivate"
    /\ Len(kwrites) = 1

\* the status-reporting step of a cycle: print_core_status (cpualgo.py) or
\* display_core_usage_and_state (cpupowalgo.py)
StatusStep == pc \in {"status", "display"} /\ pc' = "fetch"

\* C12: the status-reporting step is read-only: it leaves the cores of
\* active_cores and offline_cores as they were.
C12_StatusReadOnly ==
    [][StatusStep => (ActiveSet' = ActiveSet /\ offline_cores' = offline_cores)]_vars

\* a set_governor call of the cycle left some core's governor as it was
GovernorWriteFailed ==
    /\ gov_calls # <<>>
    /\ \E c \in Cores : governor[c] # gov_calls[Len(gov_calls)]

\* C13: a failed online-file write or a failed governor write never ends the
\* loop: the thread is never out of the program, and after a cycle's failure
\* it stands at the rest of the cycle with a next step to take.
C13_FailureNeverTerminates ==
    /\ pc \in {"start", "fetch", "call", "manage", "status", "display"}
    /\ (SomeWriteFailed(kwrites) \/ GovernorWriteFailed) => ENABLED Next

\* C13 witness: a cycle of cpupowalgo.py in which both the online-file write
\* and the governor writes failed has reached its status report
C13_Witness ==
    /\ prog = "cpupowalgo" /\ pc = "display"
    /\ SomeWriteFailed(kwrites)
    /\ GovernorWriteFailed

\* manage_core_activity has returned and the cycle's record is still there
AfterManage == pc \in {"call", "status", "display"}

\* the cycle's activation of core c had its write of "1" fail
FailedActivation(c) ==
    /\ transition.kind = "Activate"
    /\ kwrites = <<KWrite(c, "online", FALSE)>>

\* the cycle's deactivation of core c had its write of "0" fail
FailedDeactivation(c) ==
    /\ transition.kind = "Deactivate"
    /\ kwrites = <<KWrite(c, "offline", FALSE)>>

\* a call of manage_core_activity whose online-file write fails
FailedWriteStep == ManageStep /\ SomeWriteFailed(kwrites')

\* a call of manage_core_activity that finds all three signals low
LowCycleStep == ManageStep /\ transition'.low

\* a call of manage_core_activity that finds some signal high
HighCycleStep == ManageStep /\ ~transition'.low

\* C14: a failed transition is retried.  In a run whose load is high (low) in
\* every cycle from some cycle on and whose writes all succeed from then on, a
\* core whose activation (deactivation) write failed is eventually online
\* (offline) in the kernel: no core is left offline forever under sustained
\* high load.
C14_FailedTransitionRetried ==
    \A c \in 0 .. (MaxCpuCount - 1) :
        /\ <>[][~FailedWriteStep /\ ~LowCycleStep]_vars
              => [](FailedActivation(c) => <>(c \in Cores /\ online[c]))
        /\ <>[][~FailedWriteStep /\ ~HighCycleStep]_vars
              => [](FailedDeactivation(c) => <>(c \in Cores /\ ~online[c]))

\* C15: the active core count converges to what sustained load justifies.  If
\* from some cycle on every cycle finds all signals low and no write fails,
\* len(active_cores) is eventually MIN_ACTIVE_CORES for good; if from some
\* cycle on every cycle finds some signal high, offline_cores is eventually
\* empty for good.
C15_Converges ==
    /\ <>[][~HighCycleStep /\ ~FailedWriteStep]_vars
          => <>[](ActiveLen = MIN_ACTIVE_CORES)
    /\ <>[][~LowCycleStep]_vars
          => <>[](offline_cores = {})

\* a call of set_cpu_online_state on its own
SetOnlineStep == pc \in {"call", "fetch"} /\ pc' = pc

\* the last two writes requested were both "1" to core c's online file
OnlineTwice(writes, c) ==
    /\ Len(writes) = 2
    /\ writes[1].core = c /\ writes[1].state = "online"
    /\ writes[2].core = c /\ writes[2].state = "online"

\* C16: set_cpu_online_state(core, 'online') called twice in a row leaves what
\* one call leaves: the registry is as it was, and the second call changes
\* the core's kernel flag only if it is the one that succeeds (to online, as
\* one successful call does); after a successful call it changes nothing.
C16_SetOnlineIdempotent ==
    [][SetOnlineStep =>
        /\ active_cores' = active_cores
        /\ offline_cores' = offline_cores
        /\ \A c \in Cores :
              OnlineTwice(kwrites', c) =>
                 /\ online' = [online EXCEPT ![c] = online[c] \/ kwrites'[2].ok]
                 /\ kwrites'[1].ok => online' = online /\ online[c]]_vars

\* C16 witness: two calls in a row for the same core, both successful, on a
\* machine that started with some core offline
C16_Witness ==
    /\ \E c \in Cores : /\ OnlineTwice(kwrites, c)
                        /\ kwrites[1].ok /\ kwrites[2].ok
                        /\ online[c]
    /\ ~boot_all_online
    /\ pc \in {"call", "fetch"}

\* the control loop has set the governor: every core has the governor of the
\* last set_governor call that succeeded
GovernorSetByLoop == \A c \in Cores : governor[c] \in {"powersave", "performance"}

\* C17: the governor shown in a cycle's status output is the governor the
\* control loop set most recently.
C17_ShownGovernorAccurate ==
    (entry = "main" /\ pc = "manage" /\ GovernorSetByLoop)
        => \A c \in Cores : DisplayedGovernor = governor[c]

\* C18: in cpualgo.py's main loop, where ipc is get_ipc()'s fixed 0.75 and
\* IPC_THRESHOLD is 0.7, the deactivation branch is never taken: offline_cores
\* is empty and active_cores is {1, ..., MAX_CORES-1} in every state, whatever
\* the load and the IRQ count are.
C18_MainNeverDeactivates ==
    (prog = "cpualgo" /\ entry = "main" /\ pc # "start")
        => /\ offline_cores = {}
           /\ active_cores = 1 .. (cpu_count - 1)
           /\ transition.kind # "Deactivate"
           /\ pc = "manage" => ipc = FIXED_IPC /\ ipc >= IPC_THRESHOLD

\* C18 witness: a cycle of the main loop with more than MIN_ACTIVE_CORES
\* active cores has sampled a low load and a low IRQ count
C18_Witness ==
    /\ prog = "cpualgo" /\ entry = "main" /\ pc = "manage"
    /\ cpu_load < LOAD_THRESHOLD /\ irq_count < IRQ_THRESHOLD
    /\ Cardinality(active_cores) > MIN_ACTIVE_CORES

\* the registry agrees with the kernel: every core in offline_cores is offline
\* and every core in active_cores is online
Agrees(act, off, on) ==
    /\ \A c \in off : ~on[c]
    /\ \A c \in act : on[c]

\* C19: in cpualgo.py, as long as every kernel write succeeds, the registry
\* agrees with the kernel at every cycle boundary: main's initialisation with
\* successful writes establishes the agreement, and a call of
\* manage_core_activity whose write succeeds keeps it.
C19_RegistryAgreesWithKernel ==
    [][prog = "cpualgo" =>
        /\ (pc = "start" /\ pc' # "start" /\ ~SomeWriteFailed(kwrites'))
              => Agrees(active_cores', offline_cores', online')
        /\ (ManageStep /\ ~SomeWriteFailed(kwrites')
                       /\ Agrees(active_cores, offline_cores, online))
              => Agrees(active_cores', offline_cores', online')]_vars

\* C19 witness: on a machine that started with a core offline, cpualgo.py has
\* deactivated a core with a successful write and the registry agrees with
\* the kernel
C19_Witness ==
    /\ prog = "cpualgo" /\ pc = "call"
    /\ ~boot_all_online
    /\ transition.kind = "Deactivate"
    /\ kwrites # <<>> /\ ~SomeWriteFailed(kwrites)
    /\ offline_cores # {} /\ active_cores # {}
    /\ Agrees(active_cores, offline_cores, online)

====
